---------------------------- MODULE Spec2Model ----------------------------
(***************************************************************************)
(* Uploaded files of algernon (src/repl.go, the part that starts at line   *)
(* 275): newUploadedFile receives one multipart form field into a          *)
(* bytes.Buffer under an upload limit, and UploadedFile.write saves that   *)
(* buffer to a file that must not exist yet.  The Lua functions            *)
(* UploadedFile(formID, limit), save and savein are the entry points.      *)
(*                                                                         *)
(* Every request is handled by a worker of its own (one Lua state per      *)
(* request).  A worker's position is pc[w]; the local variables of         *)
(* newUploadedFile and of write are functions of the worker.  The only     *)
(* state the workers share is the file system fs.                          *)
(*                                                                         *)
(* Sizes are scaled down: MiB is one byte, and the chunk size (the memory   *)
(* limit, 32 MiB in the source) is 2 MiB, so that a field of a few bytes   *)
(* is smaller than, equal to or larger than one chunk and than the upload  *)
(* limit a script passes.  The default upload limit keeps its 32 MiB.      *)
(***************************************************************************)
EXTENDS Integers, Sequences, FiniteSets, TLC

\* ------------------------------------------------------------------ bounds

\* Largest upload limit a script passes, in MiB.
MaxLimit == 3
\* Largest number of bytes a form field holds.
MaxField == 4
\* Largest number of save/savein calls a script makes on one handle.
MaxSaves == 2
\* Number of requests that are handled at the same time.
NumWorkers == 2
\* Largest number of lines the REPL reads.
MaxLines == 3

Workers == 1..NumWorkers
\* The worker of the specifications that handle one request.
SeqWorkers == {1}

\* The values of a byte; 0 is the zero byte make([]byte, n) fills with.
Byte == {0, 1}

Min(a, b) == IF a < b THEN a ELSE b

\* --------------------------------------------------------------- constants

\* Scaled: one byte.
MiB == 1
\* A default upload limit of one MiB.
defaultUploadLimitOneMiB == 1 * MiB
\* Upload limit, in bytes.
defaultUploadLimit == 32 * MiB
\* Memory usage while uploading.  Scaled: the factor 32 is 2.
defaultMemoryLimit == 2 * MiB
chunkSize == defaultMemoryLimit
\* "Remove the extra 20 bytes"
Allowance == 20

\* Go's int, as on a 32-bit build (the widest TLC evaluates).
MaxInt == 2147483647
MinInt == -MaxInt - 1

\* ----------------------------------------------------------------- strconv

Digits == <<"0", "1", "2", "3", "4", "5", "6", "7", "8", "9">>
IsDigit(c) == \E d \in 1..10 : Digits[d] = c
DigitVal(c) == (CHOOSE d \in 1..10 : Digits[d] = c) - 1

\* The decimal text of n >= 0, as the client's HTTP library writes it.
RECURSIVE Itoa(_)
Itoa(n) == IF n < 10 THEN <<Digits[n + 1]>>
           ELSE Append(Itoa(n \div 10), Digits[(n % 10) + 1])

\* The digits s[k..] added to acc: the value, "syntax" at a character that
\* is no digit, "range" when the value leaves 0..MaxInt.
RECURSIVE ParseDigits(_, _, _)
ParseDigits(s, k, acc) ==
    IF k > Len(s) THEN [val |-> acc, err |-> "nil"]
    ELSE IF ~IsDigit(s[k]) THEN [val |-> 0, err |-> "syntax"]
    ELSE IF acc > (MaxInt - DigitVal(s[k])) \div 10
         THEN IF \A j \in k..Len(s) : IsDigit(s[j])
              THEN [val |-> MaxInt, err |-> "range"]
              ELSE [val |-> 0, err |-> "syntax"]
    ELSE ParseDigits(s, k + 1, acc * 10 + DigitVal(s[k]))

\* strconv.Atoi: the value and the error.  A syntax error gives 0, a range
\* error gives the largest (or, after "-", the smallest) int.
Atoi(s) ==
    LET neg  == Len(s) > 0 /\ s[1] = "-"
        sign == Len(s) > 0 /\ s[1] \in {"-", "+"}
        from == IF sign THEN 2 ELSE 1
        r    == ParseDigits(s, from, 0)
    IN  IF from > Len(s) THEN [val |-> 0, err |-> "syntax"]
        ELSE IF r.err = "range" /\ neg THEN [val |-> MinInt, err |-> "range"]
        ELSE IF neg THEN [val |-> -r.val, err |-> r.err]
        ELSE r

\* The precheck without the allowance: the declared length itself.
ClientLengthNoAllowance(clientLengthTotal) == clientLengthTotal

\* int64(clientLengthTotal - 20): the subtraction is done in int and wraps.
ClientLength(clientLengthTotal) ==
    IF clientLengthTotal < MinInt + Allowance
    THEN (clientLengthTotal - MinInt) + (MaxInt - (Allowance - 1))
    ELSE clientLengthTotal - Allowance

\* ---------------------------------------------------------------- requests

\* Content-Length values a client declares.
DeclaredLengths == {0} \cup {Allowance + k : k \in 0..(MaxLimit + 1)}
Nines == [k \in 1..11 |-> "9"]
\* req.Header.Get("Content-Length"): absent (the empty string), no number,
\* a number that overflows int, or a number.
Headers == {<< >>, <<"x">>, Nines} \cup {Itoa(n) : n \in DeclaredLengths}

NoErr == -1
Contents == UNION {[1..n -> Byte] : n \in 0..MaxField}
Filenames == {<<"up">>}

\* A request: the Content-Length header, whether the body parses as a
\* multipart form, whether the form has the field, the field's file name
\* and bytes, and the offset at which reading the field fails (NoErr: the
\* field is read to its end).
Requests ==
    {r \in [header : Headers, formOK : BOOLEAN, hasField : BOOLEAN,
            filename : Filenames, content : Contents,
            errAt : {NoErr} \cup 0..MaxField] :
        /\ r.errAt <= Len(r.content)
        /\ ~r.formOK => ~r.hasField
        /\ ~r.hasField => (r.content = << >> /\ r.errAt = NoErr)}

NoReq == [header |-> << >>, formOK |-> FALSE, hasField |-> FALSE,
          filename |-> << >>, content |-> << >>, errAt |-> NoErr]

\* The arguments of the Lua call UploadedFile(formID [, limit]).
NoArg == -1
FormIDs == {"", "file"}
LimitArgs == {NoArg} \cup 0..MaxLimit

\* ------------------------------------------------------------------- paths

\* A path is the sequence of its elements; an absolute path starts with "/".
\* The empty sequence is the empty string.
IsAbs(p) == Len(p) > 0 /\ p[1] = "/"

\* filepath.Join of two elements: empty elements are left out, and a
\* separator inside the result is no element of its own.
Join2(a, b) ==
    IF a = << >> THEN b ELSE a \o SelectSeq(b, LAMBDA c : c # "/")
Join3(a, b, c) == Join2(Join2(a, b), c)

\* The directory of the Lua script that handles the request.
scriptdir == <<"/", "srv">>
\* save(): no file name, or the file name to use.
GivenFilenames == {<< >>, <<"x">>}
\* savein(dir): an absolute and a relative directory.
GivenDirectories == {<<"/", "tmp">>, <<"d">>}

\* uploadedfileSave: the file name save(givenFilename) writes.
SaveFilename(u, givenFilename) ==
    Join2(u.scriptdir,
          IF givenFilename # << >> THEN givenFilename ELSE u.filename)

\* savein without the test for an absolute directory: every directory is
\* taken as relative to the script directory.
SaveInAlwaysRelative(u, givenDirectory) ==
    Join3(u.scriptdir, givenDirectory, u.filename)

\* uploadedfileSaveIn: the file name savein(givenDirectory) writes.
SaveInFilename(u, givenDirectory) ==
    IF IsAbs(givenDirectory)
    THEN Join2(givenDirectory, u.filename)
    ELSE Join3(u.scriptdir, givenDirectory, u.filename)

\* The UploadedFile values (without the buffer) and the paths they write.
Handles == [filename : Filenames, scriptdir : {scriptdir}]
Paths ==
    {SaveFilename(u, g) : u \in Handles, g \in GivenFilenames}
    \cup {SaveInFilename(u, d) : u \in Handles, d \in GivenDirectories}

\* A path of the file system: no file, or a file and its bytes.
NoFile == [exists |-> FALSE, data |-> << >>]
File(data) == [exists |-> TRUE, data |-> data]

\* Files that may be there before any request: one, written earlier.
PreExisting == {Join2(scriptdir, <<"x">>)}
OldData == <<1>>
InitialFS ==
    {[p \in Paths |-> IF p \in E THEN File(OldData) ELSE NoFile] :
        E \in SUBSET PreExisting}

\* -------------------------------------------------------------------- REPL

\* The lines term.Ask returns, by what decides the loop's path: "help",
\* "zalgo", or Lua code, which does or does not start with "print(", is or
\* is not an expression (print(pprint(line)) compiles), is or is not a
\* chunk of statements (line compiles), and whose code does or does not
\* raise an error when it runs, after its effect on the Lua state.  A
\* function call is both an expression and a statement.
NoLine == [kind |-> "none", hasPrint |-> FALSE, isExpr |-> FALSE,
           isStmt |-> FALSE, fails |-> FALSE]
ReplLines ==
    {[NoLine EXCEPT !.kind = "help"], [NoLine EXCEPT !.kind = "zalgo"]}
    \cup {l \in [kind : {"code"}, hasPrint : BOOLEAN, isExpr : BOOLEAN,
                 isStmt : BOOLEAN, fails : BOOLEAN] :
              l.fails => (l.isExpr \/ l.isStmt)}

\* The REPL before its first line: it asks for a line; no line has been
\* read, no code of a line has run, and the Lua state is untouched.
ReplStart == [pc |-> "ask", line |-> NoLine, printWorked |-> FALSE,
              runs |-> 0, lines |-> 0, effects |-> 0]

\* ------------------------------------------------------------------- state

VARIABLES
    pc,            \* the worker's position
    luaArgs,       \* the arguments of the UploadedFile(...) call
    req,           \* the request the worker handles
    uploadLimit,   \* newUploadedFile's parameter, in bytes
    clientLength,  \* newUploadedFile: the declared length less the allowance
    pos,           \* the bytes of the field read so far (file's read offset)
    buf,           \* the bytes.Buffer: its unread bytes
    totalWritten,  \* newUploadedFile: the loop's locals
    writtenBytes,
    i,
    err,
    ret,           \* what the Lua constructor returned
    ulf,           \* the UploadedFile: filename and scriptdir
    cur,           \* the save/savein call in progress
    calls,         \* the save/savein calls that returned, in order
    fs,            \* the file system
    steps,         \* newUploadedFile: what it has done with the request
    copies,        \* newUploadedFile: the io.CopyN calls it has made
    repl           \* the REPL: its position, the line and the Lua state

reqVars == <<luaArgs, req, uploadLimit, clientLength>>
loopVars == <<pos, totalWritten, writtenBytes, i, err>>
saveVars == <<cur, calls, fs>>
vars == <<pc, luaArgs, req, uploadLimit, clientLength, pos, buf, totalWritten,
          writtenBytes, i, err, ret, ulf, cur, calls, fs, steps, copies,
          repl>>
\* The variables of the uploads, which the REPL does not touch.
uploadVars == <<pc, reqVars, loopVars, buf, ret, ulf, saveVars, steps, copies>>

NoRet == [handle |-> FALSE, msg |-> "none"]
NoUlf == [filename |-> << >>, scriptdir |-> << >>]
NoCall == [op |-> "none", arg |-> << >>, path |-> << >>, pre |-> NoFile,
           bufPre |-> << >>]

Init ==
    /\ pc = [w \in Workers |-> "idle"]
    /\ luaArgs = [w \in Workers |-> [formID |-> "", limit |-> NoArg]]
    /\ req = [w \in Workers |-> NoReq]
    /\ uploadLimit = [w \in Workers |-> 0]
    /\ clientLength = [w \in Workers |-> 0]
    /\ pos = [w \in Workers |-> 0]
    /\ buf = [w \in Workers |-> << >>]
    /\ totalWritten = [w \in Workers |-> 0]
    /\ writtenBytes = [w \in Workers |-> 0]
    /\ i = [w \in Workers |-> 0]
    /\ err = [w \in Workers |-> "nil"]
    /\ ret = [w \in Workers |-> NoRet]
    /\ ulf = [w \in Workers |-> NoUlf]
    /\ cur = [w \in Workers |-> NoCall]
    /\ calls = [w \in Workers |-> << >>]
    /\ fs \in InitialFS
    /\ steps = [w \in Workers |-> {}]
    /\ copies = [w \in Workers |-> 0]
    /\ repl = ReplStart

\* -------------------------------------------------------- newUploadedFile

\* make([]byte, 0, n): room for n bytes, and no byte.
NoBytes(n) == << >>

\* make([]byte, n): n zero bytes.
Zeros(n) == [k \in 1..n |-> 0]

\* io.CopyN(buf, file, n) with the field's read offset at p: the bytes it
\* appends to buf and its error.  The error is nil exactly when n bytes
\* were copied; a source that ends earlier gives io.EOF, one that fails
\* gives the read error.
CopyN(r, p, n) ==
    LET stop    == IF r.errAt = NoErr THEN Len(r.content) ELSE r.errAt
        written == Min(n, stop - p)
    IN  [data |-> SubSeq(r.content, p + 1, p + written),
         err  |-> IF written = n THEN "nil"
                  ELSE IF r.errAt = NoErr THEN "EOF" ELSE "ReadError"]

\* The chain with the error test before the test for the end of the data:
\* io.EOF is returned as an error like any other.
AfterChunkErrFirst(total, limit, written, e) ==
    IF total > limit THEN "TooLarge"
    ELSE IF e # "nil" THEN "ReadError"
    ELSE IF written < chunkSize THEN "break"
    ELSE "continue"

\* The if / else if chain after each chunk.
AfterChunk(total, limit, written, e) ==
    IF total > limit THEN "TooLarge"
    ELSE IF written < chunkSize \/ e = "EOF" THEN "break"
    ELSE IF e # "nil" THEN "ReadError"
    ELSE "continue"

\* The truncation left out: the buffer keeps everything it holds.
TruncateNone(b, n) == b

\* buf.Truncate(n): all but the first n unread bytes are discarded.
Truncate(b, n) == SubSeq(b, 1, n)

\* A call the Lua script makes: the request it is made for and its arguments.
AllCalls == [req : Requests, formID : FormIDs, limit : LimitArgs]

\* return nil, err: the constructor pushes nil and the message.
Fail(w, msg) ==
    /\ pc' = [pc EXCEPT ![w] = "failed"]
    /\ ret' = [ret EXCEPT ![w] = [handle |-> FALSE, msg |-> msg]]
    /\ buf' = [buf EXCEPT ![w] = << >>]

\* The Lua constructor UploadedFile(formID [, limit]) up to its call of
\* newUploadedFile; an empty formID raises an argument error.
UploadedFileCall(w, C) ==
    /\ pc[w] = "idle"
    /\ UNCHANGED <<steps, copies, repl>>
    /\ \E c \in C :
        /\ req' = [req EXCEPT ![w] = c.req]
        /\ luaArgs' = [luaArgs EXCEPT ![w] =
                          [formID |-> c.formID, limit |-> c.limit]]
        /\ IF c.formID = ""
           THEN /\ pc' = [pc EXCEPT ![w] = "argerror"]
                /\ UNCHANGED uploadLimit
           ELSE /\ pc' = [pc EXCEPT ![w] = "precheck"]
                /\ uploadLimit' = [uploadLimit EXCEPT ![w] =
                       IF c.limit = NoArg THEN defaultUploadLimit
                       ELSE c.limit * MiB]
    /\ UNCHANGED <<clientLength, loopVars, buf, ret, ulf, saveVars>>

\* The precheck without its comparison: the declared length is computed
\* and newUploadedFile goes on to parse the form whatever it is.
PrecheckNoCompare(w) ==
    /\ pc[w] = "precheck"
    /\ steps' = [steps EXCEPT ![w] = @ \cup {"Header.Get"}]
    /\ clientLength' = [clientLength EXCEPT ![w] =
                           ClientLength(Atoi(req[w].header).val)]
    /\ pc' = [pc EXCEPT ![w] = "parse"]
    /\ UNCHANGED <<luaArgs, req, uploadLimit, loopVars, buf, ret, ulf,
                   saveVars, copies, repl>>

\* The Content-Length precheck.
Precheck(w) ==
    /\ pc[w] = "precheck"
    /\ steps' = [steps EXCEPT ![w] = @ \cup {"Header.Get"}]
    /\ UNCHANGED <<copies, repl>>
    /\ clientLength' = [clientLength EXCEPT ![w] =
                           ClientLength(Atoi(req[w].header).val)]
    /\ IF clientLength'[w] > uploadLimit[w]
       THEN Fail(w, "TooLargeContentLength")
       ELSE /\ pc' = [pc EXCEPT ![w] = "parse"]
            /\ UNCHANGED <<ret, buf>>
    /\ UNCHANGED <<luaArgs, req, uploadLimit, loopVars, ulf, saveVars>>

\* req.ParseMultipartForm(defaultMemoryLimit)
ParseMultipartForm(w) ==
    /\ pc[w] = "parse"
    /\ steps' = [steps EXCEPT ![w] = @ \cup {"ParseMultipartForm"}]
    /\ UNCHANGED <<copies, repl>>
    /\ IF req[w].formOK
       THEN /\ pc' = [pc EXCEPT ![w] = "formfile"]
            /\ UNCHANGED <<ret, buf>>
       ELSE Fail(w, "ParseError")
    /\ UNCHANGED <<reqVars, loopVars, ulf, saveVars>>

\* req.FormFile(formID) and defer file.Close(): for a missing field file
\* is nil and the deferred call is a nil dereference, before err is looked at.
FormFile(w) ==
    /\ pc[w] = "formfile"
    /\ steps' = [steps EXCEPT ![w] = @ \cup {"FormFile"}]
    /\ UNCHANGED <<copies, repl>>
    /\ pc' = [pc EXCEPT ![w] = IF req[w].hasField THEN "alloc" ELSE "panic"]
    /\ UNCHANGED <<reqVars, loopVars, buf, ret, ulf, saveVars>>

\* data := make([]byte, uploadLimit); buf := bytes.NewBuffer(data)
Alloc(w) ==
    /\ pc[w] = "alloc"
    /\ steps' = [steps EXCEPT ![w] = @ \cup {"make"}]
    /\ UNCHANGED <<copies, repl>>
    /\ buf' = [buf EXCEPT ![w] = Zeros(uploadLimit[w])]
    /\ totalWritten' = [totalWritten EXCEPT ![w] = 0]
    /\ writtenBytes' = [writtenBytes EXCEPT ![w] = 0]
    /\ i' = [i EXCEPT ![w] = 0]
    /\ pc' = [pc EXCEPT ![w] = "loop"]
    /\ UNCHANGED <<reqVars, pos, err, ret, ulf, saveVars>>

\* The loop condition i < int64(buf.Len()).
LoopTest(w) ==
    /\ pc[w] = "loop"
    /\ UNCHANGED <<steps, copies, repl>>
    /\ pc' = [pc EXCEPT ![w] = IF i[w] < Len(buf[w]) THEN "copy" ELSE "truncate"]
    /\ UNCHANGED <<reqVars, loopVars, buf, ret, ulf, saveVars>>

\* writtenBytes, err = io.CopyN(buf, file, chunkSize); totalWritten += ...
CopyChunk(w) ==
    /\ pc[w] = "copy"
    /\ copies' = [copies EXCEPT ![w] = @ + 1]
    /\ UNCHANGED <<steps, repl>>
    /\ LET c == CopyN(req[w], pos[w], chunkSize)
       IN  /\ buf' = [buf EXCEPT ![w] = @ \o c.data]
           /\ pos' = [pos EXCEPT ![w] = @ + Len(c.data)]
           /\ writtenBytes' = [writtenBytes EXCEPT ![w] = Len(c.data)]
           /\ totalWritten' = [totalWritten EXCEPT ![w] = @ + Len(c.data)]
           /\ err' = [err EXCEPT ![w] = c.err]
    /\ pc' = [pc EXCEPT ![w] = "check"]
    /\ UNCHANGED <<reqVars, i, ret, ulf, saveVars>>

\* The branches after the chunk.
CheckChunk(w) ==
    /\ pc[w] = "check"
    /\ UNCHANGED <<steps, copies, repl>>
    /\ LET b == AfterChunk(totalWritten[w], uploadLimit[w], writtenBytes[w], err[w])
       IN  CASE b = "TooLarge" -> Fail(w, "TooLarge") /\ UNCHANGED i
             [] b = "ReadError" -> Fail(w, "ReadError") /\ UNCHANGED i
             [] b = "break" ->
                  /\ pc' = [pc EXCEPT ![w] = "truncate"]
                  /\ UNCHANGED <<i, ret, buf>>
             [] OTHER ->
                  /\ pc' = [pc EXCEPT ![w] = "loop"]
                  /\ i' = [i EXCEPT ![w] = @ + chunkSize]
                  /\ UNCHANGED <<ret, buf>>
    /\ UNCHANGED <<reqVars, pos, totalWritten, writtenBytes, err, ulf, saveVars>>

\* buf.Truncate(int(totalWritten)) and the return of the UploadedFile; the
\* constructor pushes the userdata and an empty message.
Finish(w) ==
    /\ pc[w] = "truncate"
    /\ UNCHANGED <<steps, copies, repl>>
    /\ buf' = [buf EXCEPT ![w] = Truncate(@, totalWritten[w])]
    /\ ulf' = [ulf EXCEPT ![w] =
                  [filename |-> req[w].filename, scriptdir |-> scriptdir]]
    /\ ret' = [ret EXCEPT ![w] = [handle |-> TRUE, msg |-> ""]]
    /\ pc' = [pc EXCEPT ![w] = "handle"]
    /\ UNCHANGED <<reqVars, loopVars, saveVars>>

\* ------------------------------------------------------ save and savein

\* What a file holds after data was written at its offset 0 (the file is
\* opened without O_TRUNC and without O_APPEND).
Overlay(old, data) == data \o SubSeq(old, Len(data) + 1, Len(old))

\* The existence check left out: no file name is ever refused.
StatNeverExists(f) == FALSE

\* os.Stat(fullFilename) returned no error: write refuses the file name.
StatExists(f) == f.exists

\* The call returns result to the script.
Return(w, result, fault) ==
    /\ calls' = [calls EXCEPT ![w] = Append(@,
           [op |-> cur[w].op, arg |-> cur[w].arg, path |-> cur[w].path,
            pre |-> cur[w].pre, bufPre |-> cur[w].bufPre,
            result |-> result, fault |-> fault,
            post |-> fs'[cur[w].path], bufPost |-> buf'[w]])]
    /\ cur' = [cur EXCEPT ![w] = NoCall]
    /\ pc' = [pc EXCEPT ![w] = "handle"]

Enter(w, op, arg, path) ==
    /\ pc[w] = "handle"
    /\ UNCHANGED <<steps, copies, repl>>
    /\ Len(calls[w]) < MaxSaves
    /\ cur' = [cur EXCEPT ![w] = [op |-> op, arg |-> arg, path |-> path,
                                  pre |-> fs[path], bufPre |-> buf[w]]]
    /\ pc' = [pc EXCEPT ![w] = "stat"]
    /\ UNCHANGED <<reqVars, loopVars, buf, ret, ulf, calls, fs>>

\* uploadedfileSave up to its call of write.
SaveCall(w) ==
    \E g \in GivenFilenames : Enter(w, "save", g, SaveFilename(ulf[w], g))

\* uploadedfileSaveIn up to its call of write.
SaveInCall(w) ==
    \E d \in GivenDirectories : Enter(w, "savein", d, SaveInFilename(ulf[w], d))

\* write: the check that the file does not exist yet.
Stat(w) ==
    /\ pc[w] = "stat"
    /\ UNCHANGED <<steps, copies, repl>>
    /\ UNCHANGED <<reqVars, loopVars, buf, ret, ulf, fs>>
    /\ IF StatExists(fs[cur[w].path])
       THEN Return(w, FALSE, "none")
       ELSE /\ pc' = [pc EXCEPT ![w] = "open"]
            /\ UNCHANGED <<cur, calls>>

\* write: os.OpenFile(fullFilename, os.O_WRONLY|os.O_CREATE, perm) creates
\* the file when there is none and opens the one there is otherwise.
OpenFile(w) ==
    /\ pc[w] = "open"
    /\ UNCHANGED <<steps, copies, repl>>
    /\ fs' = [fs EXCEPT ![cur[w].path] = IF @.exists THEN @ ELSE File(<< >>)]
    /\ pc' = [pc EXCEPT ![w] = "iocopy"]
    /\ UNCHANGED <<reqVars, loopVars, buf, ret, ulf, cur, calls>>

\* io.Copy from one buffer that all handles share (the first worker's)
\* in place of the handle's own ulf.buf.
CopyToFileShared(w) ==
    /\ pc[w] = "iocopy"
    /\ fs' = [fs EXCEPT ![cur[w].path] = File(Overlay(@.data, buf[1]))]
    /\ buf' = [buf EXCEPT ![1] = << >>]
    /\ Return(w, TRUE, "none")
    /\ UNCHANGED <<reqVars, loopVars, ret, ulf, steps, copies, repl>>

\* write: io.Copy(f, ulf.buf) is buf.WriteTo(f): one Write of the unread
\* bytes at the file's offset 0, which empties the buffer.
CopyToFile(w) ==
    /\ pc[w] = "iocopy"
    /\ UNCHANGED <<steps, copies, repl>>
    /\ fs' = [fs EXCEPT ![cur[w].path] = File(Overlay(@.data, buf[w]))]
    /\ buf' = [buf EXCEPT ![w] = << >>]
    /\ Return(w, TRUE, "none")
    /\ UNCHANGED <<reqVars, loopVars, ret, ulf>>

\* write: os.OpenFile fails (the directory is missing or not writable).
OpenFail(w) ==
    /\ pc[w] = "open"
    /\ UNCHANGED <<steps, copies, repl>>
    /\ UNCHANGED <<fs, buf>>
    /\ Return(w, FALSE, "open")
    /\ UNCHANGED <<reqVars, loopVars, ret, ulf>>

\* write: the Write fails after m bytes (the disk is full): the file keeps
\* them, the buffer keeps the rest, and write returns the error.
CopyFail(w) ==
    /\ pc[w] = "iocopy"
    /\ UNCHANGED <<steps, copies, repl>>
    /\ \E m \in 0..(Len(buf[w]) - 1) :
        /\ fs' = [fs EXCEPT ![cur[w].path] =
                     File(Overlay(@.data, SubSeq(buf[w], 1, m)))]
        /\ buf' = [buf EXCEPT ![w] = SubSeq(@, m + 1, Len(@))]
    /\ Return(w, FALSE, "copy")
    /\ UNCHANGED <<reqVars, loopVars, ret, ulf>>

\* uploadedfileSize: size() pushes ulf.buf.Len(), the unread bytes.
uploadedfileSize(w) == Len(buf[w])

\* ------------------------------------------------------ specifications

Step(w, C) ==
    \/ UploadedFileCall(w, C)
    \/ Precheck(w)
    \/ ParseMultipartForm(w)
    \/ FormFile(w)
    \/ Alloc(w)
    \/ LoopTest(w)
    \/ CopyChunk(w)
    \/ CheckChunk(w)
    \/ Finish(w)
    \/ SaveCall(w)
    \/ SaveInCall(w)
    \/ Stat(w)
    \/ OpenFile(w)
    \/ CopyToFile(w)

\* One request, any call, on a file system that does not fail.
Next == \E w \in SeqWorkers : Step(w, AllCalls)
Spec == Init /\ [][Next]_vars

\* A file system whose OpenFile and Write may fail.
NextFault ==
    \/ Next
    \/ \E w \in SeqWorkers : OpenFail(w) \/ CopyFail(w)
SpecFault == Init /\ [][NextFault]_vars

\* The calls of the specification of concurrent requests: uploads of one
\* byte, of one chunk and of more than one chunk under a limit of nothing
\* and of one chunk, one under the default limit, and one call for each way
\* the constructor fails early.
Ones(n) == [k \in 1..n |-> 1]
Upload(content, limit) ==
    [req |-> [header |-> << >>, formOK |-> TRUE, hasField |-> TRUE,
              filename |-> <<"up">>, content |-> content, errAt |-> NoErr],
     formID |-> "file", limit |-> limit]
ConcCalls ==
    {Upload(Ones(n), l) : n \in 1..(chunkSize + 1), l \in {0, chunkSize}}
    \cup {Upload(Ones(1), NoArg),
          [Upload(<< >>, 0) EXCEPT !.formID = ""],
          [Upload(<< >>, 0) EXCEPT !.req.header = Itoa(Allowance + 1)],
          [Upload(<< >>, 0) EXCEPT !.req.formOK = FALSE, !.req.hasField = FALSE],
          [Upload(<< >>, 0) EXCEPT !.req.hasField = FALSE]}

\* Requests handled at the same time, each by its own worker.
NextConc == \E w \in Workers : Step(w, ConcCalls)
SpecConc == Init /\ [][NextConc]_vars

\* -------------------------------------------------------------------- REPL

\* L.DoString(code): the chunk is compiled and, when it compiles, run.  A
\* run of the line's code has its effect on the Lua state whether or not it
\* raises an error afterwards; ok is the nil error.
DoString(r, compiles) ==
    IF compiles
    THEN [ok |-> ~r.line.fails, runs |-> r.runs + 1, effects |-> r.effects + 1]
    ELSE [ok |-> FALSE, runs |-> r.runs, effects |-> r.effects]

\* line = strings.TrimSpace(term.Ask("lua> "))
Ask ==
    /\ repl.pc = "ask"
    /\ repl.lines < MaxLines
    /\ \E l \in ReplLines :
           repl' = [repl EXCEPT !.pc = "switch", !.line = l, !.runs = 0,
                                !.lines = @ + 1]
    /\ UNCHANGED uploadVars

\* case "help": the help text is printed, continue.
Help ==
    /\ repl.pc = "switch"
    /\ repl.line.kind = "help"
    /\ repl' = [repl EXCEPT !.pc = "ask"]
    /\ UNCHANGED uploadVars

\* case "zalgo": o.ErrExit, return nil.
Zalgo ==
    /\ repl.pc = "switch"
    /\ repl.line.kind = "zalgo"
    /\ repl' = [repl EXCEPT !.pc = "exited"]
    /\ UNCHANGED uploadVars

\* printWorked = false; for a line that does not start with "print(":
\* printWorked = nil == L.DoString("print(pprint(" + line + "))")
TryPrint ==
    /\ repl.pc = "switch"
    /\ repl.line.kind = "code"
    /\ IF repl.line.hasPrint
       THEN repl' = [repl EXCEPT !.pc = "raw", !.printWorked = FALSE]
       ELSE LET d == DoString(repl, repl.line.isExpr)
            IN  repl' = [repl EXCEPT !.pc = "raw", !.printWorked = d.ok,
                                     !.runs = d.runs, !.effects = d.effects]
    /\ UNCHANGED uploadVars

\* if !printWorked { if err = L.DoString(line); err != nil { log.Error } }
RunLine ==
    /\ repl.pc = "raw"
    /\ IF repl.printWorked
       THEN repl' = [repl EXCEPT !.pc = "ask"]
       ELSE LET d == DoString(repl, repl.line.isStmt)
            IN  repl' = [repl EXCEPT !.pc = "ask", !.runs = d.runs,
                                     !.effects = d.effects]
    /\ UNCHANGED uploadVars

\* The REPL alone, on the console of a server that handles no request.
NextREPL == Ask \/ Help \/ Zalgo \/ TryPrint \/ RunLine
SpecREPL == Init /\ [][NextREPL]_vars

\* ------------------------------------------------------------- properties

\* newUploadedFile has returned or panicked.
Done(w) == pc[w] \in {"failed", "panic", "handle", "stat", "open", "iocopy"}

\* The bytes the field's reader delivers before it ends or fails.
FieldBytes(r) ==
    SubSeq(r.content, 1, IF r.errAt = NoErr THEN Len(r.content) ELSE r.errAt)

\* The bytes newUploadedFile has read from the field.
ReadBytes(w) == SubSeq(req[w].content, 1, pos[w])

\* The form parses and holds the field.
HasField(r) == r.formOK /\ r.hasField

\* The header is a decimal number (it may still overflow int).
IsNumber(h) == h # << >> /\ \A k \in 1..Len(h) : IsDigit(h[k])

\* The header declares a number of at most n.
DeclaresAtMost(h, n) == \E d \in 0..n : h = Itoa(d)

TooLargeMessages == {"TooLarge", "TooLargeContentLength"}

\* No worker has created a file.
NoFileCreated == \A p \in Paths : fs[p].exists => p \in PreExisting

\* a is a proper prefix of b.
ProperPrefix(a, b) == Len(a) < Len(b) /\ a = SubSeq(b, 1, Len(a))

\* C1: a field of more bytes than the upload limit, for any limit >= 0 and
\* any Content-Length header, makes newUploadedFile return a too-large
\* error and no handle, and no file is created.
C1_OversizeRejected ==
    \A w \in Workers :
        (Done(w) /\ HasField(req[w])
            /\ Len(FieldBytes(req[w])) > uploadLimit[w]) =>
        /\ ~ret[w].handle
        /\ ret[w].msg \in TooLargeMessages
        /\ NoFileCreated

\* C2: of the save/savein calls of different requests that run at the same
\* time against one path that did not exist, exactly one returns true, and
\* the file holds the bytes of that call.
C2_OneConcurrentSaveWins ==
    \A w1, w2 \in Workers : \A k1 \in DOMAIN calls[w1], k2 \in DOMAIN calls[w2] :
        LET c1 == calls[w1][k1]
            c2 == calls[w2][k2]
        IN  (w1 # w2 /\ c1.path = c2.path /\ ~c1.pre.exists /\ ~c2.pre.exists) =>
            /\ c1.result # c2.result
            /\ c1.result => fs[c1.path] = File(c1.bufPre)

\* C3: after a successful newUploadedFile the buffer holds the bytes read
\* from the field, in order, and a first save that succeeds writes a file
\* of exactly these bytes.
C3_BufferIsContent ==
    \A w \in Workers :
        ret[w].handle =>
        /\ calls[w] = << >> => buf[w] = ReadBytes(w)
        /\ (calls[w] # << >> /\ calls[w][1].result /\ ~calls[w][1].pre.exists) =>
               calls[w][1].post = File(ReadBytes(w))

\* C4 as stated: a field of at most the upload limit makes newUploadedFile
\* succeed, whatever the Content-Length header declares.
C4_WithinLimitAccepted ==
    \A w \in Workers :
        (Done(w) /\ HasField(req[w])
            /\ Len(FieldBytes(req[w])) <= uploadLimit[w]) =>
        /\ ret[w].handle
        /\ ret[w].msg = ""

\* C4, amended: a field of at most the upload limit makes newUploadedFile
\* succeed when the Content-Length header is absent, is no number, or
\* declares at most the upload limit plus the allowance of 20 bytes.
C4_WithinLimitAcceptedUnlessDeclaredLarger ==
    \A w \in Workers :
        (Done(w) /\ HasField(req[w])
            /\ Len(FieldBytes(req[w])) <= uploadLimit[w]
            /\ (~IsNumber(req[w].header)
                \/ DeclaresAtMost(req[w].header, uploadLimit[w] + Allowance))) =>
        /\ ret[w].handle
        /\ ret[w].msg = ""

\* C4's case: a handle for a non-empty field whose request declared, as a
\* number, fewer bytes than the field holds.
C4_Witness ==
    \E w \in Workers :
        /\ ret[w].handle
        /\ Len(req[w].content) > 0
        /\ IsNumber(req[w].header)
        /\ DeclaresAtMost(req[w].header, Len(req[w].content) - 1)

\* C5: during the copy loop, after the allocation and after each chunk,
\* the buffer is never longer than the upload limit.
C5_BufferWithinLimit ==
    \A w \in Workers :
        pc[w] \in {"loop", "copy", "check", "truncate"} =>
            Len(buf[w]) <= uploadLimit[w]

\* C6: on one handle, the first save to a path that does not exist returns
\* true and creates the file with the buffer's bytes; a save to the same
\* path right after it returns false, writes nothing and leaves the file
\* as the first call wrote it.
C6_SecondSaveRefused ==
    \A w \in Workers :
        /\ (Len(calls[w]) >= 1 /\ ~calls[w][1].pre.exists) =>
              /\ calls[w][1].result
              /\ calls[w][1].post = File(calls[w][1].bufPre)
        /\ (Len(calls[w]) >= 2 /\ calls[w][1].result
                /\ calls[w][2].path = calls[w][1].path) =>
              /\ ~calls[w][2].result
              /\ calls[w][2].pre = calls[w][1].post
              /\ calls[w][2].post = calls[w][1].post
              /\ calls[w][2].bufPost = calls[w][2].bufPre

\* C6's case: a save that created a file of at least one byte, followed by
\* a refused save to the same path.
C6_Witness ==
    \E w \in Workers :
        /\ Len(calls[w]) = 2
        /\ ~calls[w][1].pre.exists
        /\ calls[w][1].result
        /\ Len(calls[w][1].bufPre) > 0
        /\ calls[w][2].path = calls[w][1].path
        /\ ~calls[w][2].result
        /\ fs[calls[w][1].path] = File(calls[w][1].bufPre)

\* C7: a read error of the field, in any chunk, makes newUploadedFile
\* return that error and no handle, and no file is written.
C7_ReadErrorReturned ==
    \A w \in Workers :
        (Done(w) /\ err[w] = "ReadError") =>
        /\ ~ret[w].handle
        /\ ret[w].msg = "ReadError"
        /\ NoFileCreated

\* C8: when the form parses and has no field of the name, newUploadedFile
\* returns no handle and a field-missing error to the constructor, which
\* returns nil and the message; it does not panic.
C8_MissingFieldReturned ==
    \A w \in Workers :
        (req[w].formOK /\ ~req[w].hasField
            /\ pc[w] \notin {"idle", "argerror", "precheck", "parse", "formfile"}
            /\ ret[w].msg # "TooLargeContentLength") =>
        /\ pc[w] = "failed"
        /\ ~ret[w].handle
        /\ ret[w].msg = "MissingFile"

\* C9: when write fails after it created the file, no file that holds only
\* a prefix of the buffer's bytes is left at the path.
C9_NoPartialFile ==
    \A w \in Workers : \A k \in DOMAIN calls[w] :
        (calls[w][k].fault = "copy" /\ ~calls[w][k].pre.exists) =>
            ~(/\ calls[w][k].post.exists
              /\ ProperPrefix(calls[w][k].post.data, calls[w][k].bufPre))

\* C10: with the Content-Length header absent or no number, the copy loop
\* alone decides: newUploadedFile rejects every field larger than the
\* upload limit as too large and accepts every field within it.
C10_NoHeaderLoopDecides ==
    \A w \in Workers :
        (Done(w) /\ HasField(req[w]) /\ ~IsNumber(req[w].header)) =>
        /\ ret[w].handle <=> Len(FieldBytes(req[w])) <= uploadLimit[w]
        /\ ~ret[w].handle => ret[w].msg = "TooLarge"

\* newUploadedFile has just returned the handle of worker w: no save or
\* savein was called on it yet.
Constructed(w) == pc[w] = "handle" /\ calls[w] = << >>

\* C11: on every successful newUploadedFile, size() equals the number of
\* bytes the copy loop read from the field (the total-written counter), and
\* that number is at most the upload limit.
C11_SizeIsTotalWritten ==
    \A w \in SeqWorkers :
        Constructed(w) =>
            /\ uploadedfileSize(w) = totalWritten[w]
            /\ totalWritten[w] = pos[w]
            /\ totalWritten[w] <= uploadLimit[w]

\* C11 witness: a handle made from a field of more than one chunk's bytes
\* that fill the limit exactly.
C11_Witness ==
    \E w \in SeqWorkers :
        /\ Constructed(w)
        /\ totalWritten[w] > chunkSize
        /\ totalWritten[w] = uploadLimit[w]

\* The Content-Length header of worker w's request is a number, and that
\* number less the 20-byte allowance exceeds the upload limit.
DeclaredTooLarge(w) ==
    /\ IsNumber(req[w].header)
    /\ ~DeclaresAtMost(req[w].header, uploadLimit[w] + Allowance)

\* C12: when the declared Content-Length minus the 20-byte allowance exceeds
\* the upload limit, newUploadedFile returns the too-large error before the
\* form is parsed, before the field is looked up and before the buffer is
\* allocated: once the header was read, the call has failed with that error
\* and none of the three steps has occurred or ever occurs.
C12_DeclaredTooLargeFailsFirst ==
    \A w \in SeqWorkers :
        ("Header.Get" \in steps[w] /\ DeclaredTooLarge(w)) =>
            /\ pc[w] = "failed"
            /\ ret[w] = [handle |-> FALSE, msg |-> "TooLargeContentLength"]
            /\ steps[w] = {"Header.Get"}
            /\ buf[w] = << >>

\* C12 witness: a request whose field is there and within the limit, rejected
\* on a header that declares one byte more than the limit and the allowance.
C12_Witness ==
    \E w \in SeqWorkers :
        /\ pc[w] = "failed"
        /\ steps[w] = {"Header.Get"}
        /\ req[w].header = Itoa(uploadLimit[w] + Allowance + 1)
        /\ HasField(req[w])
        /\ req[w].errAt = NoErr
        /\ Len(req[w].content) \in 1..uploadLimit[w]

\* Some worker other than w saves or has saved to path p.
OthersUse(w, p) ==
    \E v \in Workers \ {w} :
        \/ cur[v] # NoCall /\ cur[v].path = p
        \/ \E k \in 1..Len(calls[v]) : calls[v][k].path = p

\* Every save or savein of a handle to a path that held no file and that no
\* other request saves to has returned true, and the file holds the bytes
\* the handle's buffer held at the call.
OwnSavesSucceed ==
    \A w \in Workers : \A k \in 1..Len(calls[w]) :
        LET c == calls[w][k]
        IN  (~c.pre.exists /\ ~OthersUse(w, c.path)) =>
                /\ c.result
                /\ c.post = File(c.bufPre)
                /\ fs[c.path] = File(c.bufPre)

\* A step of one request leaves every other request's handle as it is: its
\* buffer, its filename and script directory, and its returned calls.
OthersUnchanged ==
    \A w \in Workers :
        pc'[w] = pc[w] =>
            /\ buf'[w] = buf[w]
            /\ ulf'[w] = ulf[w]
            /\ calls'[w] = calls[w]

\* C13: independent uploads do not interfere: when two requests hold their
\* own handles and save to different paths that held no file, under every
\* interleaving both saves return true and each file holds the bytes of its
\* own handle only, and neither call changes the other handle's buffer.
C13_IndependentSaves == []OwnSavesSucceed /\ [][OthersUnchanged]_vars

\* C13 witness: two requests with handles that hold different bytes have
\* both saved, to two different paths.
C13_Witness ==
    \E w, v \in Workers :
        /\ w # v
        /\ calls[w] # << >> /\ calls[v] # << >>
        /\ calls[w][1].result /\ calls[v][1].result
        /\ calls[w][1].path # calls[v][1].path
        /\ calls[w][1].bufPre # << >> /\ calls[v][1].bufPre # << >>
        /\ calls[w][1].bufPre # calls[v][1].bufPre

\* The path the claim gives for a call c on the handle u, written with the
\* components of the paths put one after the other.
ExpectedPath(u, c) ==
    IF c.op = "savein"
    THEN IF c.arg # << >> /\ c.arg[1] = "/"
         THEN c.arg \o u.filename
         ELSE u.scriptdir \o c.arg \o u.filename
    ELSE IF c.arg # << >>
         THEN u.scriptdir \o c.arg
         ELSE u.scriptdir \o u.filename

\* C14: savein(dir) writes to dir joined with the artifact's own filename
\* when dir is absolute, and to the script directory joined with dir joined
\* with the filename when dir is relative; save(name) writes to the script
\* directory joined with name when name is given and not empty, and with the
\* artifact's own filename otherwise.  The path is the one write is called
\* with, and the file of a call that returned true is at that path.
C14_SavePaths ==
    \A w \in SeqWorkers :
        /\ cur[w] # NoCall => cur[w].path = ExpectedPath(ulf[w], cur[w])
        /\ \A k \in 1..Len(calls[w]) :
               /\ calls[w][k].path = ExpectedPath(ulf[w], calls[w][k])
               /\ calls[w][k].result =>
                      fs[ExpectedPath(ulf[w], calls[w][k])].exists

\* C14 witness: a handle that was saved in an absolute directory and then
\* under a given name, both with success.
C14_Witness ==
    \E w \in SeqWorkers :
        /\ Len(calls[w]) = 2
        /\ calls[w][1].op = "savein" /\ IsAbs(calls[w][1].arg)
        /\ calls[w][1].result
        /\ calls[w][2].op = "save" /\ calls[w][2].arg # << >>
        /\ calls[w][2].result

\* The request of worker w holds the field, and the field is zero bytes
\* that are read without error.
ZeroByteField(w) ==
    HasField(req[w]) /\ req[w].content = << >> /\ req[w].errAt = NoErr

\* What C15 says of a handle: size() is 0 when it is made, and every save
\* to a path that held no file returned true and left an empty file.
EmptyHandle(w) ==
    /\ ret[w] = [handle |-> TRUE, msg |-> ""]
    /\ Constructed(w) => uploadedfileSize(w) = 0
    /\ \A k \in 1..Len(calls[w]) :
           ~calls[w][k].pre.exists =>
               /\ calls[w][k].result
               /\ calls[w][k].post = File(<< >>)

\* C15 as stated: a form field of zero bytes is accepted with any limit
\* >= 0: newUploadedFile succeeds with size() = 0, and a following save to
\* a fresh path returns true and leaves an existing, empty file.
C15_ZeroByteFieldAccepted ==
    \A w \in SeqWorkers : (Done(w) /\ ZeroByteField(w)) => EmptyHandle(w)

\* C15, amended: the same, for a request whose Content-Length header is
\* absent, is no number, or declares at most the limit plus 20 bytes.
C15_ZeroByteFieldAcceptedUnlessDeclaredLarger ==
    \A w \in SeqWorkers :
        (Done(w) /\ ZeroByteField(w) /\ ~DeclaredTooLarge(w)) => EmptyHandle(w)

\* C15 witness: a handle made from a zero-byte field under a limit above 0
\* (the copy loop ran and met the end of the data), saved to a fresh path.
C15_Witness ==
    \E w \in SeqWorkers :
        /\ ZeroByteField(w)
        /\ uploadLimit[w] > 0
        /\ err[w] = "EOF"
        /\ calls[w] # << >>
        /\ ~calls[w][1].pre.exists
        /\ calls[w][1].result
        /\ fs[calls[w][1].path] = File(<< >>)

\* C16: the Lua constructor UploadedFile(fieldName, limitInMiB) rejects an
\* empty fieldName with an argument error before the request is read at
\* all (no header read, no multipart parse, no allocation, nothing
\* returned); otherwise the limit it uses is 32 MiB when limitInMiB is
\* omitted and limitInMiB * 1 MiB when it is given.
C16_ConstructorArguments ==
    \A w \in SeqWorkers :
        pc[w] # "idle" =>
            IF luaArgs[w].formID = ""
            THEN /\ pc[w] = "argerror"
                 /\ steps[w] = {}
                 /\ buf[w] = << >>
                 /\ ret[w] = NoRet
            ELSE /\ pc[w] # "argerror"
                 /\ uploadLimit[w] = IF luaArgs[w].limit = NoArg
                                     THEN 32 * MiB
                                     ELSE luaArgs[w].limit * MiB

\* C16 witness: a call with an empty fieldName and a limit, for a request
\* whose form holds a field within that limit, has raised the argument error.
C16_Witness ==
    \E w \in SeqWorkers :
        /\ pc[w] = "argerror"
        /\ luaArgs[w].limit # NoArg
        /\ HasField(req[w])
        /\ Len(req[w].content) \in 1..(luaArgs[w].limit * MiB)

\* C17: a save or savein call, successful or failed, leaves the handle's
\* artifact unchanged: size() is after the call what it was before it, and a
\* later save of the same handle to another path that held no file writes
\* the bytes the earlier save wrote.
C17_SaveLeavesArtifact ==
    \A w \in SeqWorkers : \A k \in 1..Len(calls[w]) :
        /\ Len(calls[w][k].bufPost) = Len(calls[w][k].bufPre)
        /\ \A j \in 1..(k - 1) :
               (/\ calls[w][j].result
                /\ ~calls[w][k].pre.exists
                /\ calls[w][k].path # calls[w][j].path) =>
                   /\ calls[w][k].result
                   /\ calls[w][k].post = calls[w][j].post

\* C18: for every limit > 0 and every field, the copy loop of
\* newUploadedFile makes at most floor(limit / chunkSize) + 1 chunk copies,
\* and it leaves the loop only through the too-large error, a read error or
\* the break for a short chunk or the end of the data: the loop condition
\* i < buf.Len() holds whenever it is tested, and a call that is past the
\* loop without an error made a copy and left through the break.
C18_LoopBounded ==
    \A w \in SeqWorkers :
        ("make" \in steps[w] /\ uploadLimit[w] > 0) =>
            /\ copies[w] <= (uploadLimit[w] \div chunkSize) + 1
            /\ pc[w] = "loop" => i[w] < Len(buf[w])
            /\ pc[w] \in {"truncate", "handle", "stat", "open", "iocopy"} =>
                   /\ copies[w] >= 1
                   /\ writtenBytes[w] < chunkSize \/ err[w] = "EOF"
                   /\ totalWritten[w] <= uploadLimit[w]
            /\ pc[w] = "failed" =>
                   /\ copies[w] >= 1
                   /\ \/ ret[w].msg = "TooLarge" /\ totalWritten[w] > uploadLimit[w]
                      \/ ret[w].msg = "ReadError"
                           /\ err[w] \notin {"nil", "EOF"}

\* C18 witness: a field that delivers full chunks beyond a limit of at least
\* one chunk is rejected as too large by the last copy the bound allows.
C18_Witness ==
    \E w \in SeqWorkers :
        /\ pc[w] = "failed"
        /\ ret[w].msg = "TooLarge"
        /\ uploadLimit[w] >= chunkSize
        /\ writtenBytes[w] = chunkSize
        /\ copies[w] = (uploadLimit[w] \div chunkSize) + 1

\* C19: in the REPL loop, each entered line that is neither "help" nor
\* "zalgo" is executed at most once: when the wrapped form
\* print(pprint(line)) started to run the line's code and failed at run
\* time, the raw line is not run again, so its effects do not occur twice.
C19_LineRunsOnce == repl.runs <= 1

=============================================================================
